---- MODULE Spec2Model ----
(***************************************************************************)
(* Model of src/password_generator.py: the terminal password generator.    *)
(* A text line is a sequence of one-character strings.  Every action is    *)
(* one pass through a menu loop of the program (the read of the choice,    *)
(* the branch taken and everything the branch calls), the "Press Enter"    *)
(* reads included: they accept any line and change nothing.                *)
(***************************************************************************)
EXTENDS Integers, Sequences, FiniteSets, TLC

\* ------------------------------------------------------------------ bounds

\* Generations per session that the model follows (saved_passwords has no
\* limit in the code): once reached, no further generation is followed.
MaxGen == 2

\* Longest line typed at the "Enter length" prompt in LengthSpec.
MaxRawLen == 3

\* Most toggles and unrecognized choices made in one visit of the character
\* types menu in TypesSpec, before "5".
MaxToggles == 3

\* Longest line typed at the filename prompt in ExportSpec.
MaxFilenameLen == 3

\* Resolution of random.random(): a draw is a number of RandomUnit-ths. It is
\* above the largest pool (92 characters), so that every position of every
\* pool is drawn by some value.
RandomUnit == 96

\* ------------------------------------------------------------- text lines

\* Python's None for length (main, line 520).
None == -1

ascii_lowercase ==
  << "a","b","c","d","e","f","g","h","i","j","k","l","m",
     "n","o","p","q","r","s","t","u","v","w","x","y","z" >>

ascii_uppercase ==
  << "A","B","C","D","E","F","G","H","I","J","K","L","M",
     "N","O","P","Q","R","S","T","U","V","W","X","Y","Z" >>

digits == << "0","1","2","3","4","5","6","7","8","9" >>

\* The literal of line 369, character by character (30 characters).  The
\* grave accent cannot be written in a TLA+ string: "grave" stands for it.
symbols ==
  << "!","@","#","$","%","^","&","*","(",")","_","+","-","=","[",
     "]","{","}","|",";",":","'",",",".","<",">","?","/","grave","~" >>

\* The whitespace str.strip() removes, as far as the lines typed here hold it.
Whitespace == { " ", "\t" }

Range(s) == { s[i] : i \in 1..Len(s) }

\* str.strip(): drops leading and trailing whitespace, keeps inner whitespace.
Strip(s) ==
  LET keep == { i \in 1..Len(s) : s[i] \notin Whitespace }
  IN  IF keep = {} THEN << >>
      ELSE LET lo == CHOOSE i \in keep : \A j \in keep : i <= j
               hi == CHOOSE i \in keep : \A j \in keep : j <= i
           IN  SubSeq(s, lo, hi)

\* str.lower() on one character.
LowerChar(c) ==
  IF \E i \in 1..Len(ascii_uppercase) : ascii_uppercase[i] = c
  THEN ascii_lowercase[CHOOSE i \in 1..Len(ascii_uppercase) : ascii_uppercase[i] = c]
  ELSE c

Lower(s) == [ i \in 1..Len(s) |-> LowerChar(s[i]) ]

\* The loop of lines 267-271: every character is one of "0123456789".
IsNumber(raw) == \A i \in 1..Len(raw) : raw[i] \in Range(digits)

DigitValue(c) == (CHOOSE i \in 1..Len(digits) : digits[i] = c) - 1

\* int(raw) for a non-empty line of decimal digits.
RECURSIVE ParseInt(_)
ParseInt(raw) ==
  IF raw = << >> THEN 0
  ELSE ParseInt(SubSeq(raw, 1, Len(raw) - 1)) * 10 + DigitValue(raw[Len(raw)])

\* ------------------------------------------------------------ do_set_length

min_length == 5
max_length == 100
weak_threshold == 10

\* Whether do_set_length reaches the "Continue with n? (y/n)" read.
AsksConfirmation(rawLine) ==
  LET raw == Strip(rawLine)
  IN  /\ raw # << >>
      /\ IsNumber(raw)
      /\ ParseInt(raw) >= min_length
      /\ ParseInt(raw) <= max_length
      /\ ParseInt(raw) < weak_threshold

\* do_set_length without the upper limit of line 281.
do_set_length_no_upper_limit(current_length, rawLine, confirmLine) ==
  LET raw == Strip(rawLine)
  IN  IF raw = << >> THEN current_length
      ELSE IF ~IsNumber(raw) THEN current_length
      ELSE LET n == ParseInt(raw)
           IN  IF n < min_length THEN current_length
               ELSE IF n < weak_threshold /\ Lower(Strip(confirmLine)) # << "y" >>
                    THEN current_length
               ELSE n

\* do_set_length without the .lower() of line 290.
do_set_length_exact_case(current_length, rawLine, confirmLine) ==
  LET raw == Strip(rawLine)
  IN  IF raw = << >> THEN current_length
      ELSE IF ~IsNumber(raw) THEN current_length
      ELSE LET n == ParseInt(raw)
           IN  IF n < min_length \/ n > max_length THEN current_length
               ELSE IF n < weak_threshold /\ Strip(confirmLine) # << "y" >>
                    THEN current_length
               ELSE n

\* do_set_length with the test of line 292 inverted.
do_set_length_inverted_confirm(current_length, rawLine, confirmLine) ==
  LET raw == Strip(rawLine)
  IN  IF raw = << >> THEN current_length
      ELSE IF ~IsNumber(raw) THEN current_length
      ELSE LET n == ParseInt(raw)
           IN  IF n < min_length \/ n > max_length THEN current_length
               ELSE IF n < weak_threshold /\ Lower(Strip(confirmLine)) = << "y" >>
                    THEN current_length
               ELSE n

\* do_set_length(current_length), given the line typed at "Enter length" and
\* the line typed at the confirmation prompt (read only when it is asked).
do_set_length(current_length, rawLine, confirmLine) ==
  LET raw == Strip(rawLine)
  IN  IF raw = << >> THEN current_length
      ELSE IF ~IsNumber(raw) THEN current_length
      ELSE LET n == ParseInt(raw)
           IN  IF n < min_length \/ n > max_length THEN current_length
               ELSE IF n < weak_threshold /\ Lower(Strip(confirmLine)) # << "y" >>
                    THEN current_length
               ELSE n

\* -------------------------------------------------------- generate_password

\* Pool with the digits added whether use_digit is on or not.
PoolDigitsAlways(use_lower, use_upper, use_digit, use_symbol) ==
     (IF use_lower  THEN ascii_lowercase ELSE << >>)
  \o (IF use_upper  THEN ascii_uppercase ELSE << >>)
  \o digits
  \o (IF use_symbol THEN symbols         ELSE << >>)

\* The pool of lines 361-369, in the order the code extends it.
Pool(use_lower, use_upper, use_digit, use_symbol) ==
     (IF use_lower  THEN ascii_lowercase ELSE << >>)
  \o (IF use_upper  THEN ascii_uppercase ELSE << >>)
  \o (IF use_digit  THEN digits          ELSE << >>)
  \o (IF use_symbol THEN symbols         ELSE << >>)

\* The generator of module random is seeded once, when the module is imported
\* (line 6), from the system's entropy; after that its draws are determined.
\* A stream is the successive values of random.random() of one run, each in
\* [0, 1) as a number of RandomUnit-ths, repeating when the stream ends.
SessionStreams ==
  { << 0, 36, 72, 12, 48, 84, 24, 60 >>,
    << 84, 84, 24, 0, 60, 12, 12, 72 >> }

\* The i-th draw of a stream, as an index into a population of n elements:
\* random.choices takes population[floor(random() * n)].
DrawIndex(stream, i, n) ==
  ((stream[((i - 1) % Len(stream)) + 1] * n) \div RandomUnit) + 1

\* random.choices(pool, k=length) raises IndexError on an empty pool when k > 0.
GenerateRaises(len, use_lower, use_upper, use_digit, use_symbol) ==
  /\ Pool(use_lower, use_upper, use_digit, use_symbol) = << >>
  /\ len > 0

\* "".join(random.choices(pool, k=length)), the generator having made `drawn`
\* draws of `stream` before the call.
generate_password(len, use_lower, use_upper, use_digit, use_symbol, stream, drawn) ==
  LET pool == Pool(use_lower, use_upper, use_digit, use_symbol)
  IN  [ i \in 1..len |-> pool[DrawIndex(stream, drawn + i, Len(pool))] ]

\* save_generated_password putting the record first (insert(0, record)).
save_generated_password_first(saved, password, len, use_lower, use_upper, use_digit, use_symbol) ==
  << [ password  |-> password,
       length    |-> len,
       lowercase |-> use_lower,
       uppercase |-> use_upper,
       numbers   |-> use_digit,
       symbols   |-> use_symbol ] >> \o saved

\* save_generated_password with two flags under each other's key.
save_generated_password_swapped(saved, password, len, use_lower, use_upper, use_digit, use_symbol) ==
  Append(saved,
         [ password  |-> password,
           length    |-> len,
           lowercase |-> use_upper,
           uppercase |-> use_lower,
           numbers   |-> use_digit,
           symbols   |-> use_symbol ])

\* save_generated_password: the record appended to saved_passwords.
save_generated_password(saved, password, len, use_lower, use_upper, use_digit, use_symbol) ==
  Append(saved,
         [ password  |-> password,
           length    |-> len,
           lowercase |-> use_lower,
           uppercase |-> use_upper,
           numbers   |-> use_digit,
           symbols   |-> use_symbol ])

\* -------------------------------------------------------------- collaborators

\* What one POST to the login service can come to (attempt_login).
LoginResponses ==
  { [ kind |-> "transport_error", status |-> "" ],
    [ kind |-> "not_json",        status |-> "" ],
    [ kind |-> "json_not_object", status |-> "" ],
    [ kind |-> "json_no_status",  status |-> "" ],
    [ kind |-> "json_status",     status |-> "ok" ],
    [ kind |-> "json_status",     status |-> "locked" ],
    [ kind |-> "json_status",     status |-> "invalid_format" ],
    [ kind |-> "json_status",     status |-> "invalid_credentials" ],
    [ kind |-> "json_status",     status |-> "service_error" ],
    [ kind |-> "json_status",     status |-> "maintenance" ] }

\* attempt_login: requests.post raising and resp.json() raising give
\* "service_error"; data.get is outside both try blocks, so a JSON body that
\* is no object (a list, a string, a number) raises AttributeError.
AttemptLoginRaises(response) == response.kind = "json_not_object"

attempt_login(response) ==
  CASE response.kind = "transport_error" -> "service_error"
    [] response.kind = "not_json"        -> "service_error"
    [] response.kind = "json_no_status"  -> "service_error"
    [] OTHER                             -> response.status

\* What one POST to the export service can come to (export_saved_passwords):
\* no answer, a body that is no JSON, or a JSON body, which is null, no
\* object, or an object with or without "status", "path" and "error_message".
ExportResponses ==
  { [ kind |-> "transport_error", status |-> "", has_path |-> FALSE, path |-> "",
      has_error |-> FALSE, error_message |-> "" ],
    [ kind |-> "not_json", status |-> "", has_path |-> FALSE, path |-> "",
      has_error |-> FALSE, error_message |-> "" ],
    [ kind |-> "json_null", status |-> "", has_path |-> FALSE, path |-> "",
      has_error |-> FALSE, error_message |-> "" ],
    [ kind |-> "json_not_object", status |-> "", has_path |-> FALSE, path |-> "",
      has_error |-> FALSE, error_message |-> "" ],
    [ kind |-> "json_object", status |-> "ok", has_path |-> TRUE,
      path |-> "/exports/out.csv", has_error |-> FALSE, error_message |-> "" ],
    [ kind |-> "json_object", status |-> "error", has_path |-> FALSE, path |-> "",
      has_error |-> TRUE, error_message |-> "disk full" ],
    [ kind |-> "json_object", status |-> "error", has_path |-> FALSE, path |-> "",
      has_error |-> FALSE, error_message |-> "" ] }

\* export_saved_passwords returns None when the POST or resp.json() raises;
\* a JSON null body parses to None as well.
ExportResultIsNone(response) ==
  response.kind \in { "transport_error", "not_json", "json_null" }

\* result.get (line 148) raises AttributeError when the body is no object.
ExportScreenRaises(response) == response.kind = "json_not_object"

\* Which message run_export_screen prints after the call (lines 142-153).
ExportShown(response) ==
  IF ExportResultIsNone(response) THEN "service_error"
  ELSE IF response.status = "ok" THEN "path"
  ELSE IF response.has_error THEN "error_message"
  ELSE "unknown_error"

\* The value printed inside that message: result.get('path') at line 150,
\* result.get('error_message', 'Unknown error.') at line 152.
ExportText(response) ==
  CASE ExportShown(response) = "path" ->
         IF response.has_path THEN response.path ELSE "None"
    [] ExportShown(response) = "error_message" -> response.error_message
    [] ExportShown(response) = "unknown_error" -> "Unknown error."
    [] OTHER -> ""

\* ExportFilename without the strip of line 134.
ExportFilenameUntrimmed(line) ==
  IF line = << >>
  THEN << "p","a","s","s","w","o","r","d","s",".","c","s","v" >>
  ELSE line

\* The filename sent: the trimmed line, or the default when it is blank.
ExportFilename(line) ==
  IF Strip(line) = << >>
  THEN << "p","a","s","s","w","o","r","d","s",".","c","s","v" >>
  ELSE Strip(line)

\* ------------------------------------------------------------------- state

VARIABLES
  pc,               \* where the program waits for a line, or how it ended
  length,           \* main's length (None until set)
  types_set,        \* main's types_set
  use_lower,        \* main's four character-type flags
  use_upper,
  use_digit,
  use_symbol,
  saved_passwords,  \* main's saved_passwords
  exit_status,      \* "running", "success" (SystemExit(0)) or "error" (traceback)
  rng,              \* the generator of module random: its stream and draws made
  gen_count,        \* calls of generate_password that returned, so far
  step              \* the last pass: lines typed, prompts read, calls made, message

vars ==
  << pc, length, types_set, use_lower, use_upper, use_digit, use_symbol,
     saved_passwords, exit_status, rng, gen_count, step >>

config == << length, types_set, use_lower, use_upper, use_digit, use_symbol >>

\* What a pass leaves in `step`: the menu it ran in, the trimmed choice, the
\* other lines typed in order, the prompts read besides the choice, the
\* collaborator calls made, the message shown and the exception raised.
Did(op, menu, choice, lines, prompts, calls, shown, raised) ==
  [ op |-> op, menu |-> menu, choice |-> choice, lines |-> lines,
    prompts |-> prompts, calls |-> calls, shown |-> shown, raised |-> raised ]

\* ------------------------------------------------------------------ inputs

\* Lines typed at a menu's "Enter choice" prompt.
MenuLines ==
  { << "1" >>, << "2" >>, << "3" >>, << "4" >>, << "5" >>, << "9" >>, << >> }

UsernameLines == { << >>, << " ", "\t" >>, << "a", "l" >>, << " ", "a", "l", " " >> }

PasswordLines == { << "p", "w" >>, << >> }

\* Lines typed at "Enter length" and at the confirmation in a session.
SessionLengthLines ==
  { << >>, << " ", "7" >>, << "4" >>, << "1", "0", "1" >>, << "1", "x" >> }

SessionConfirmLines == { << "y" >>, << "n" >> }

\* Lines typed at the character-types editor in a session.
SessionTypeLines == { << "1" >>, << "2" >>, << "3" >>, << "5" >>, << "9" >> }

FilenameLines == { << >>, << " ", "o", "u", "t" >> }

\* -------------------------------------------------------------------- Init

\* main's locals as lines 515-525 set them; they exist from the login on, and
\* nothing reads them before.
Init ==
  /\ pc = "welcome"
  /\ length = None
  /\ types_set = FALSE
  /\ use_lower = TRUE
  /\ use_upper = TRUE
  /\ use_digit = TRUE
  /\ use_symbol = FALSE
  /\ saved_passwords = << >>
  /\ exit_status = "running"
  /\ rng \in { [ stream |-> s, drawn |-> 0 ] : s \in SessionStreams }
  /\ gen_count = 0
  /\ step = Did("start", "", << >>, << >>, {}, << >>, "", "")

\* ----------------------------------------------------------- exit and crash

\* exit_program returning to the main menu instead of raising.
exit_program_returns(menu, choice) ==
  /\ pc' = "main_menu"
  /\ step' = Did("exit", menu, choice, << >>, {}, << >>, "", "")
  /\ UNCHANGED << config, saved_passwords, exit_status, rng, gen_count >>

\* exit_program: raise SystemExit(0).
exit_program(menu, choice) ==
  /\ pc' = "terminated"
  /\ exit_status' = "success"
  /\ step' = Did("exit", menu, choice, << >>, {}, << >>, "", "")
  /\ UNCHANGED << config, saved_passwords, rng, gen_count >>

\* An exception nothing catches: the interpreter prints the traceback and
\* the process ends with status 1.
Uncaught(op, menu, choice, lines, prompts, calls, exception) ==
  /\ pc' = "crashed"
  /\ exit_status' = "error"
  /\ step' = Did(op, menu, choice, lines, prompts, calls, "traceback", exception)
  /\ UNCHANGED << config, saved_passwords, rng, gen_count >>

\* A pass that shows something and waits at the same menu again.
Stay(op, menu, choice, shown) ==
  /\ step' = Did(op, menu, choice, << >>, {}, << >>, shown, "")
  /\ UNCHANGED << pc, config, saved_passwords, exit_status, rng, gen_count >>

\* A pass that only moves to another menu.
Goto(op, menu, choice, target) ==
  /\ pc' = target
  /\ step' = Did(op, menu, choice, << >>, {}, << >>, "", "")
  /\ UNCHANGED << config, saved_passwords, exit_status, rng, gen_count >>

\* ----------------------------------------------------- welcome and login

\* show_welcome (line 506): any line continues.
Welcome ==
  /\ pc = "welcome"
  /\ Goto("welcome", "welcome", << >>, "login")

\* What run_login_screen prints for a status (lines 62-72).
LoginShown(status) ==
  CASE status = "ok"                  -> "login_successful"
    [] status = "locked"              -> "account_locked"
    [] status = "invalid_credentials" -> "invalid_credentials"
    [] status = "invalid_format"      -> "invalid_format"
    [] OTHER                          -> "login_service_error"

\* Line 53, on the line read at "Username: ".
UsernameIsBlankUntrimmed(usernameLine) == usernameLine = << >>
UsernameIsBlank(usernameLine) == Strip(usernameLine) = << >>

\* Line 62 with the test turned into "no denial".
LoginGrantedUnlessDenied(status) ==
  status \notin { "locked", "invalid_credentials", "invalid_format" }

\* Line 62: run_login_screen returns True on this status alone.
LoginGranted(status) == status = "ok"

\* The calls of the login service one attempt_login makes (the one POST of
\* line 24), with what the service did and what attempt_login returned
\* ("" when it raised instead).
LoginCalls(response) ==
  << [ service  |-> "login",
       response |-> response,
       returned |-> IF AttemptLoginRaises(response) THEN ""
                    ELSE attempt_login(response) ] >>

\* One pass of run_login_screen's loop, and main's lines 510-512 when it returns.
Login(usernameLine, passwordLine, response) ==
  /\ pc = "login"
  /\ IF UsernameIsBlank(usernameLine)
     THEN /\ pc' = "terminated"
          /\ exit_status' = "success"
          /\ step' = Did("login_quit", "login", << >>, << usernameLine >>,
                         {}, << >>, "", "")
          /\ UNCHANGED << config, saved_passwords, rng, gen_count >>
     ELSE IF AttemptLoginRaises(response)
     THEN Uncaught("login", "login", << >>, << usernameLine, passwordLine >>,
                   { "password" }, LoginCalls(response), "AttributeError")
     ELSE /\ pc' = IF LoginGranted(attempt_login(response)) THEN "main_menu" ELSE "login"
          /\ step' = Did("login", "login", << >>, << usernameLine, passwordLine >>,
                         { "password" }, LoginCalls(response),
                         LoginShown(attempt_login(response)), "")
          /\ UNCHANGED << config, saved_passwords, exit_status, rng, gen_count >>

\* ------------------------------------------------------------ generation

\* Lines 388-392: generate_password, then save_generated_password.
GenerateAndSave(menu, choice) ==
  IF GenerateRaises(length, use_lower, use_upper, use_digit, use_symbol)
  THEN Uncaught("generate", menu, choice, << >>, {}, << >>, "IndexError")
  ELSE /\ Len(saved_passwords) < MaxGen
       /\ saved_passwords' =
            save_generated_password(
              saved_passwords,
              generate_password(length, use_lower, use_upper, use_digit, use_symbol,
                                rng.stream, rng.drawn),
              length, use_lower, use_upper, use_digit, use_symbol)
       /\ rng' = [ rng EXCEPT !.drawn = (rng.drawn + length) % Len(rng.stream) ]
       /\ gen_count' = gen_count + 1
       /\ pc' = "generate"
       /\ step' = Did("generate", menu, choice, << >>, {}, << >>, "password", "")
       /\ UNCHANGED << config, exit_status >>

\* One pass of run_generate_screen's loop from the read of the choice on: "2"
\* returns, "3" exits, and every other line, "1" included, reaches the top of
\* the loop, which generates and saves again.
GenerateScreen(line) ==
  /\ pc = "generate"
  /\ CASE Strip(line) = << "2" >> -> Goto("return", "generate", Strip(line), "main_menu")
       [] Strip(line) = << "3" >> -> exit_program("generate", Strip(line))
       [] OTHER -> GenerateAndSave("generate", Strip(line))

\* --------------------------------------------------------------- settings

\* run_settings, choice "1": length = do_set_length(length).  The pass shows
\* "Current length" (line 256): `current` is the length it was called with.
SetLength(rawLine, confirmLine) ==
  /\ length' = do_set_length(length, rawLine, confirmLine)
  /\ step' = [ op      |-> "set_length",
               menu    |-> "settings",
               choice  |-> << "1" >>,
               lines   |-> IF AsksConfirmation(rawLine) THEN << rawLine, confirmLine >>
                                                        ELSE << rawLine >>,
               prompts |-> IF AsksConfirmation(rawLine) THEN { "length", "confirm" }
                                                        ELSE { "length" },
               calls   |-> << >>,
               shown   |-> IF AsksConfirmation(rawLine) THEN "weak_length_warning" ELSE "",
               raised  |-> "",
               current |-> length ]
  /\ UNCHANGED << pc, types_set, use_lower, use_upper, use_digit, use_symbol,
                  saved_passwords, exit_status, rng, gen_count >>

\* One pass of run_settings' loop.  The confirmation line is read only when
\* do_set_length asks for it.
Settings(line, lengthLines, confirmLines) ==
  /\ pc = "settings"
  /\ CASE Strip(line) = << "1" >> ->
            \E rawLine \in lengthLines :
              \E confirmLine \in
                   (IF AsksConfirmation(rawLine) THEN confirmLines ELSE { << >> }) :
                SetLength(rawLine, confirmLine)
       [] Strip(line) = << "2" >> -> Goto("enter", "settings", Strip(line), "char_types")
       [] Strip(line) = << "3" >> -> Goto("return", "settings", Strip(line), "main_menu")
       [] Strip(line) = << "4" >> -> exit_program("settings", Strip(line))
       [] OTHER -> Stay("unrecognized", "settings", Strip(line), "")

\* Toggle with choice "2" flipping the lowercase flag along with its own.
ToggleUpperWithLower(choice, flags) ==
  CASE choice = << "1" >> -> [ flags EXCEPT !.lower  = ~flags.lower ]
    [] choice = << "2" >> -> [ flags EXCEPT !.upper  = ~flags.upper,
                                            !.lower  = ~flags.lower ]
    [] choice = << "3" >> -> [ flags EXCEPT !.digit  = ~flags.digit ]
    [] choice = << "4" >> -> [ flags EXCEPT !.symbol = ~flags.symbol ]
    [] OTHER -> flags

\* Toggle with each choice turning its flag on instead of flipping it.
ToggleTurnsOn(choice, flags) ==
  CASE choice = << "1" >> -> [ flags EXCEPT !.lower  = TRUE ]
    [] choice = << "2" >> -> [ flags EXCEPT !.upper  = TRUE ]
    [] choice = << "3" >> -> [ flags EXCEPT !.digit  = TRUE ]
    [] choice = << "4" >> -> [ flags EXCEPT !.symbol = TRUE ]
    [] OTHER -> flags

\* A toggle of do_character_types (lines 342-349): the four flags after it.
Toggle(choice, flags) ==
  CASE choice = << "1" >> -> [ flags EXCEPT !.lower  = ~flags.lower ]
    [] choice = << "2" >> -> [ flags EXCEPT !.upper  = ~flags.upper ]
    [] choice = << "3" >> -> [ flags EXCEPT !.digit  = ~flags.digit ]
    [] choice = << "4" >> -> [ flags EXCEPT !.symbol = ~flags.symbol ]
    [] OTHER -> flags

\* Line 231 with types_set set only when a type is left on.
TypesSetIfAnyOn(flags) == flags.lower \/ flags.upper \/ flags.digit \/ flags.symbol

\* Line 231: types_set after do_character_types has returned, whatever the
\* four flags it returned.
TypesSetOnSave(flags) == TRUE

Flags ==
  [ lower |-> use_lower, upper |-> use_upper, digit |-> use_digit, symbol |-> use_symbol ]

\* One pass of do_character_types' loop; on "5" it returns to run_settings,
\* which stores the four flags and sets types_set (lines 228-231).
CharacterTypes(line) ==
  /\ pc = "char_types"
  /\ CASE Strip(line) \in { << "1" >>, << "2" >>, << "3" >>, << "4" >> } ->
            /\ use_lower'  = Toggle(Strip(line), Flags).lower
            /\ use_upper'  = Toggle(Strip(line), Flags).upper
            /\ use_digit'  = Toggle(Strip(line), Flags).digit
            /\ use_symbol' = Toggle(Strip(line), Flags).symbol
            /\ step' = Did("toggle", "char_types", Strip(line), << >>, {}, << >>, "", "")
            /\ UNCHANGED << pc, length, types_set, saved_passwords, exit_status,
                            rng, gen_count >>
       [] Strip(line) = << "5" >> ->
            /\ types_set' = TypesSetOnSave(Flags)
            /\ pc' = "settings"
            /\ step' = Did("save_types", "char_types", Strip(line), << >>, {}, << >>, "", "")
            /\ UNCHANGED << length, use_lower, use_upper, use_digit, use_symbol,
                            saved_passwords, exit_status, rng, gen_count >>
       [] OTHER -> Stay("unrecognized", "char_types", Strip(line), "")

\* ------------------------------------------------------------------- help

\* One pass of run_help_menu's loop.
HelpMenu(line) ==
  /\ pc = "help"
  /\ CASE Strip(line) \in { << "1" >>, << "2" >>, << "3" >> } ->
            Stay("help_text", "help", Strip(line), "help_text")
       [] Strip(line) = << "4" >> -> Goto("return", "help", Strip(line), "main_menu")
       [] Strip(line) = << "5" >> -> exit_program("help", Strip(line))
       [] OTHER -> Stay("unrecognized", "help", Strip(line), "")

\* ----------------------------------------------------------------- export

\* Line 127.
NothingSavedNever(saved) == FALSE
NothingSaved(saved) == Len(saved) = 0

\* The POST of export_saved_passwords (lines 101-106), with what the service
\* did.
ExportCall(filenameLine, saved, response) ==
  [ service |-> "export", filename |-> ExportFilename(filenameLine), data |-> saved,
    response |-> response ]

\* export_saved_passwords with a second POST after a failed one.
ExportCallsRetried(filenameLine, saved, response) ==
  IF ExportResultIsNone(response)
  THEN << ExportCall(filenameLine, saved, response),
          ExportCall(filenameLine, saved, response) >>
  ELSE << ExportCall(filenameLine, saved, response) >>

\* The calls of the export service one run_export_screen makes (line 139).
ExportCalls(filenameLine, saved, response) ==
  << ExportCall(filenameLine, saved, response) >>

\* run_export_screen, whole: the filename line is read and the service is
\* called only when saved_passwords is not empty.
ExportScreen(choice, filenameLine, response) ==
  IF NothingSaved(saved_passwords)
  THEN Stay("export", "main_menu", choice, "nothing_to_export")
  ELSE IF ExportScreenRaises(response)
  THEN Uncaught("export", "main_menu", choice, << filenameLine >>, { "filename" },
                ExportCalls(filenameLine, saved_passwords, response), "AttributeError")
  ELSE /\ step' = [ op      |-> "export",
                    menu    |-> "main_menu",
                    choice  |-> choice,
                    lines   |-> << filenameLine >>,
                    prompts |-> { "filename" },
                    calls   |-> ExportCalls(filenameLine, saved_passwords, response),
                    shown   |-> ExportShown(response),
                    raised  |-> "",
                    text    |-> ExportText(response) ]
       /\ UNCHANGED << pc, config, saved_passwords, exit_status, rng, gen_count >>

\* -------------------------------------------------------------- main menu

\* Line 541.
SettingsMissingBoth(len, types) == len = None /\ ~types
SettingsMissing(len, types) == len = None \/ ~types

\* One pass of main's loop (lines 529-554).
MainMenu(line) ==
  /\ pc = "main_menu"
  /\ CASE Strip(line) = << "1" >> ->
            IF SettingsMissing(length, types_set)
            THEN Stay("settings_required", "main_menu", Strip(line), "settings_required")
            ELSE GenerateAndSave("main_menu", Strip(line))
       [] Strip(line) = << "2" >> -> Goto("enter", "main_menu", Strip(line), "settings")
       [] Strip(line) = << "3" >> -> Goto("enter", "main_menu", Strip(line), "help")
       [] Strip(line) = << "4" >> ->
            \E filenameLine \in FilenameLines : \E response \in ExportResponses :
              ExportScreen(Strip(line), filenameLine, response)
       [] Strip(line) = << "5" >> -> exit_program("main_menu", Strip(line))
       [] OTHER -> Stay("unrecognized", "main_menu", Strip(line), "")

\* ---------------------------------------------------------- specification

DoLogin ==
  \E usernameLine \in UsernameLines : \E passwordLine \in PasswordLines :
    \E response \in LoginResponses : Login(usernameLine, passwordLine, response)

DoMainMenu == \E line \in MenuLines : MainMenu(line)

DoSettings == \E line \in MenuLines : Settings(line, SessionLengthLines, SessionConfirmLines)

DoCharacterTypes == \E line \in SessionTypeLines : CharacterTypes(line)

DoGenerateScreen == \E line \in MenuLines : GenerateScreen(line)

DoHelpMenu == \E line \in MenuLines : HelpMenu(line)

Next ==
  \/ Welcome
  \/ DoLogin
  \/ DoMainMenu
  \/ DoSettings
  \/ DoCharacterTypes
  \/ DoGenerateScreen
  \/ DoHelpMenu

Spec == Init /\ [][Next]_vars

\* ------------------------------------------- do_set_length on its own inputs

\* Characters typed at "Enter length" in LengthSpec.
LengthAlphabet == { "0", "1", "4", "5", "7", "9", " ", "x", "-" }

\* Every line of at most n characters of an alphabet.
Lines(alphabet, n) == UNION { [ 1..k -> alphabet ] : k \in 0..n }

LengthConfirmLines ==
  { << "y" >>, << "Y" >>, << " ", "y", " " >>, << "n" >>, << "y", "e", "s" >>, << >> }

\* Lengths the settings menu can be entered with.
LengthCurrents == { None, 8, 64 }

\* The settings menu just entered from the main menu, before any character
\* type was saved, with a length an earlier visit left.
LengthInit ==
  /\ pc = "settings"
  /\ length \in LengthCurrents
  /\ types_set = FALSE
  /\ use_lower = TRUE
  /\ use_upper = TRUE
  /\ use_digit = TRUE
  /\ use_symbol = FALSE
  /\ saved_passwords = << >>
  /\ exit_status = "running"
  /\ rng \in { [ stream |-> s, drawn |-> 0 ] : s \in SessionStreams }
  /\ gen_count = 0
  /\ step = Did("enter", "main_menu", << "2" >>, << >>, {}, << >>, "", "")

\* The first pass of run_settings' loop, with choice "1".
LengthNext ==
  /\ step.op = "enter"
  /\ Settings(<< "1" >>, Lines(LengthAlphabet, MaxRawLen), LengthConfirmLines)

LengthSpec == LengthInit /\ [][LengthNext]_vars

\* ---------------------------------------- generate_password on its own inputs

\* The streams of GenSpec: those of the sessions, and for every value of
\* random.random() the stream that repeats it.
GenStreams == SessionStreams \cup { << v >> : v \in 0..(RandomUnit - 1) }

\* run_generate_screen is about to be called with a length of
\* generate_password's domain (its prerequisite at line 355, with the
\* program's max_length), any four flags, and the generator in any stream.
GenInit ==
  /\ pc = "main_menu"
  /\ length \in 1..max_length
  /\ types_set = TRUE
  /\ use_lower \in BOOLEAN
  /\ use_upper \in BOOLEAN
  /\ use_digit \in BOOLEAN
  /\ use_symbol \in BOOLEAN
  /\ saved_passwords = << >>
  /\ exit_status = "running"
  /\ rng \in [ stream : GenStreams, drawn : { 0 } ]
  /\ gen_count = 0
  /\ step = Did("start", "", << >>, << >>, {}, << >>, "", "")

GenNext == step.op = "start" /\ GenerateAndSave("main_menu", << "1" >>)

GenSpec == GenInit /\ [][GenNext]_vars

\* ------------------------------------- do_character_types on its own inputs

\* Choices typed in the character types menu before "5": the four toggles and
\* one that the menu does not know.
TypeChoices == { << "1" >>, << "2" >>, << "3" >>, << "4" >>, << "9" >> }

\* do_character_types, whole: the four flags it returns when the choices
\* `keys` are typed and then "5".
RECURSIVE do_character_types(_, _)
do_character_types(flags, keys) ==
  IF keys = << >> THEN flags
  ELSE do_character_types(Toggle(Head(keys), flags), Tail(keys))

\* The settings menu has just been entered from the main menu, with any four
\* flags; flags other than main's initial ones come from an earlier save,
\* which set types_set.
TypesInit ==
  /\ pc = "settings"
  /\ length = None
  /\ use_lower \in BOOLEAN
  /\ use_upper \in BOOLEAN
  /\ use_digit \in BOOLEAN
  /\ use_symbol \in BOOLEAN
  /\ types_set \in BOOLEAN
  /\ << use_lower, use_upper, use_digit, use_symbol >> # << TRUE, TRUE, TRUE, FALSE >>
       => types_set
  /\ saved_passwords = << >>
  /\ exit_status = "running"
  /\ rng \in [ stream : SessionStreams, drawn : { 0 } ]
  /\ gen_count = 0
  /\ step = Did("enter", "main_menu", << "2" >>, << >>, {}, << >>, "", "")

\* Choice "2" of run_settings, whole (lines 227-231): do_character_types runs
\* until "5" is typed, its four flags are stored and types_set is set.
EditTypes(keys) ==
  /\ pc = "settings"
  /\ use_lower'  = do_character_types(Flags, keys).lower
  /\ use_upper'  = do_character_types(Flags, keys).upper
  /\ use_digit'  = do_character_types(Flags, keys).digit
  /\ use_symbol' = do_character_types(Flags, keys).symbol
  /\ types_set' = TypesSetOnSave(do_character_types(Flags, keys))
  /\ step' = [ op      |-> "character_types",
               menu    |-> "settings",
               choice  |-> << "2" >>,
               lines   |-> keys \o << << "5" >> >>,
               prompts |-> {},
               calls   |-> << >>,
               shown   |-> "",
               raised  |-> "",
               before  |-> Flags ]
  /\ UNCHANGED << pc, length, saved_passwords, exit_status, rng, gen_count >>

TypesNext ==
  /\ step.op = "enter"
  /\ \E keys \in Lines(TypeChoices, MaxToggles) : EditTypes(keys)

TypesSpec == TypesInit /\ [][TypesNext]_vars

\* ------------------------------------------- the settings menus on their own

\* Lines typed at "Enter length" in EditorSpec: accepted (7 after the
\* confirmation, 12 without), refused, and not a number.
EditorLengthLines ==
  { << >>, << "7" >>, << "1", "2" >>, << "4" >>, << "x" >> }

\* Lines typed in the character types menu in EditorSpec: every choice of the
\* menu and one it does not know.
EditorTypeLines ==
  { << "1" >>, << "2" >>, << "3" >>, << "4" >>, << "5" >>, << "9" >> }

\* The settings menu has just been entered from the main menu: in a session
\* where nothing has been set yet, or in one where the types were saved as
\* they were, the length was set to 7 and one password was generated.
EditorInit ==
  /\ pc = "settings"
  /\ use_lower = TRUE
  /\ use_upper = TRUE
  /\ use_digit = TRUE
  /\ use_symbol = FALSE
  /\ exit_status = "running"
  /\ step = Did("enter", "main_menu", << "2" >>, << >>, {}, << >>, "", "")
  /\ \E stream \in SessionStreams :
       \/ /\ length = None
          /\ types_set = FALSE
          /\ saved_passwords = << >>
          /\ gen_count = 0
          /\ rng = [ stream |-> stream, drawn |-> 0 ]
       \/ /\ length = 7
          /\ types_set = TRUE
          /\ saved_passwords =
               save_generated_password(
                 << >>, generate_password(7, TRUE, TRUE, TRUE, FALSE, stream, 0),
                 7, TRUE, TRUE, TRUE, FALSE)
          /\ gen_count = 1
          /\ rng = [ stream |-> stream, drawn |-> 7 ]

EditorSettings ==
  \E line \in MenuLines : Settings(line, EditorLengthLines, SessionConfirmLines)

EditorCharacterTypes == \E line \in EditorTypeLines : CharacterTypes(line)

EditorNext == EditorSettings \/ EditorCharacterTypes

EditorSpec == EditorInit /\ [][EditorNext]_vars

\* ------------------------------------------- run_export_screen on its own inputs

\* Characters typed at the filename prompt in ExportSpec.
FilenameAlphabet == { "a", " ", "\t" }

\* The history after n generations of length 7 with main's initial flags.
RECURSIVE GeneratedHistory(_, _)
GeneratedHistory(stream, n) ==
  IF n = 0 THEN << >>
  ELSE save_generated_password(
         GeneratedHistory(stream, n - 1),
         generate_password(7, TRUE, TRUE, TRUE, FALSE, stream, (7 * (n - 1)) % Len(stream)),
         7, TRUE, TRUE, TRUE, FALSE)

\* The generate screen has just returned to the main menu, one or two
\* passwords of length 7 having been generated with main's initial flags.
ExportInit ==
  /\ pc = "main_menu"
  /\ length = 7
  /\ types_set = TRUE
  /\ use_lower = TRUE
  /\ use_upper = TRUE
  /\ use_digit = TRUE
  /\ use_symbol = FALSE
  /\ exit_status = "running"
  /\ step = Did("return", "generate", << "2" >>, << >>, {}, << >>, "", "")
  /\ \E stream \in SessionStreams : \E n \in 1..MaxGen :
       /\ saved_passwords = GeneratedHistory(stream, n)
       /\ gen_count = n
       /\ rng = [ stream |-> stream, drawn |-> (7 * n) % Len(stream) ]

\* Choice "4" of the main menu, any number of times.
ExportNext ==
  /\ pc = "main_menu"
  /\ \E filenameLine \in Lines(FilenameAlphabet, MaxFilenameLen) :
       \E response \in ExportResponses :
         ExportScreen(<< "4" >>, filenameLine, response)

ExportSpec == ExportInit /\ [][ExportNext]_vars

\* ================================================================== claims

AnyTypeOn == use_lower \/ use_upper \/ use_digit \/ use_symbol

\* The pass just made called generate_password.
CalledGenerate == step.op = "generate"

\* C1: a call of generate_password happens only with length set, types_set
\* true and at least one of the four flags on.
C1_GenerationOnlyWhenPermitted ==
  CalledGenerate => (length # None /\ types_set /\ AnyTypeOn)

\* C2: the process ends only by an exit choice or a blank username, and with
\* a successful exit status; it never stops on an unhandled error.
C2_EndsOnlyByChoice ==
  /\ exit_status # "error"
  /\ pc # "crashed"
  /\ pc = "terminated" => (exit_status = "success" /\ step.op \in { "exit", "login_quit" })

\* The line typed at "Enter length" in the pass just made, trimmed, and the
\* confirmation typed (no line when none was asked).
TypedLength == Strip(step.lines[1])
TypedConfirm == IF Len(step.lines) >= 2 THEN step.lines[2] ELSE << >>

HasNonDigit(raw) == \E i \in 1..Len(raw) : raw[i] \notin Range(digits)
AllDigits(raw) == raw # << >> /\ ~HasNonDigit(raw)

\* C3 as stated: do_set_length returns the previous length when the trimmed
\* input has a non-digit, when the integer is outside [5,100], and when it is
\* below 10 and the confirmation is anything but the exact lowercase "y".
C3_RejectsUnlessExactLowercaseY ==
  step.op = "set_length" =>
    ( ( \/ HasNonDigit(TypedLength)
        \/ AllDigits(TypedLength) /\ ParseInt(TypedLength) \notin 5..100
        \/ /\ AllDigits(TypedLength)
           /\ ParseInt(TypedLength) \in 5..9
           /\ Strip(TypedConfirm) # << "y" >> )
      => length = step.current )

\* C3 as amended: the same, the confirmation being trimmed and lowercased
\* before it is compared with "y" (so "Y" confirms).
C3_RejectsUnlessConfirmed ==
  step.op = "set_length" =>
    ( ( \/ HasNonDigit(TypedLength)
        \/ AllDigits(TypedLength) /\ ParseInt(TypedLength) \notin 5..100
        \/ /\ AllDigits(TypedLength)
           /\ ParseInt(TypedLength) \in 5..9
           /\ Lower(Strip(TypedConfirm)) # << "y" >> )
      => length = step.current )

\* A weak length was declined with "n" and the length 8 was kept.
C3_Witness ==
  /\ step.op = "set_length"
  /\ step.lines = << << "9" >>, << "n" >> >>
  /\ step.current = 8
  /\ length = 8

\* C4: do_set_length returns int(raw) exactly when raw is non-empty, all
\* decimal digits, within [5,100], and either at least 10 (no confirmation
\* asked) or confirmed by a line that is "y" once trimmed and lowercased;
\* otherwise it returns the current length.
C4_SetLengthResult ==
  step.op = "set_length" =>
    LET accepted ==
          /\ AllDigits(TypedLength)
          /\ ParseInt(TypedLength) \in 5..100
          /\ \/ ParseInt(TypedLength) >= 10 /\ "confirm" \notin step.prompts
             \/ ParseInt(TypedLength) < 10 /\ "confirm" \in step.prompts
                  /\ Lower(Strip(TypedConfirm)) = << "y" >>
    IN  /\ accepted => length = ParseInt(TypedLength)
        /\ ~accepted => length = step.current
        /\ "confirm" \in step.prompts <=>
             (AllDigits(TypedLength) /\ ParseInt(TypedLength) \in 5..9)

\* From unset, "7" confirmed with "Y" made the length 7.
C4_Witness ==
  /\ step.op = "set_length"
  /\ step.lines = << << "7" >>, << "Y" >> >>
  /\ step.current = None
  /\ length = 7

\* C5: the length is unset or within [5,100] in every state, and unset when
\* the session starts.
C5_LengthInRange ==
  /\ length = None \/ length \in 5..100
  /\ pc \in { "welcome", "login" } => length = None
  /\ (step.op = "login" /\ pc = "main_menu") => length = None

\* An out-of-range edit was refused while the length was 7.
C5_Witness ==
  /\ step.op = "set_length"
  /\ step.lines = << << "1", "0", "1" >> >>
  /\ step.current = 7
  /\ length = 7

\* C6: a generation appends one record at the end of the history, every
\* other pass leaves the history as it was, and the history has as many
\* records as generations have been made.
C6_HistoryAppendOnly ==
  /\ [](Len(saved_passwords) = gen_count)
  /\ [][ IF step'.op = "generate" /\ step'.raised = ""
         THEN /\ gen_count' = gen_count + 1
              /\ Len(saved_passwords') = Len(saved_passwords) + 1
              /\ SubSeq(saved_passwords', 1, Len(saved_passwords)) = saved_passwords
         ELSE /\ gen_count' = gen_count
              /\ saved_passwords' = saved_passwords ]_vars

\* Two records are stored and the export service was just sent them.
C6_Witness ==
  /\ Len(saved_passwords) = 2
  /\ saved_passwords[1] # saved_passwords[2]
  /\ step.op = "export"
  /\ step.calls # << >>

C8_GenerateRefusedUntilConfigured ==
  [][ /\ ( /\ pc = "main_menu"
           /\ step'.menu = "main_menu"
           /\ step'.choice = << "1" >>
           /\ (length = None \/ ~types_set) )
        => ( /\ step'.shown = "settings_required"
             /\ pc' = "main_menu"
             /\ gen_count' = gen_count
             /\ saved_passwords' = saved_passwords
             /\ config' = config )
      /\ (pc = "main_menu" /\ pc' = "generate") => (length # None /\ types_set) ]_vars

\* Choice 1 was refused with the length set and the types not saved.
C8_Witness ==
  /\ step.menu = "main_menu"
  /\ step.choice = << "1" >>
  /\ step.shown = "settings_required"
  /\ length = 7
  /\ ~types_set

\* The pass just made called the export service.
CalledExport == \E i \in 1..Len(step.calls) : step.calls[i].service = "export"

\* C9: the export flow run with an empty history neither asks for a filename
\* nor calls the export service; the service is called only with at least
\* one record in the history.
C9_NoExportCallOnEmptyHistory ==
  /\ ( /\ step.menu = "main_menu"
       /\ step.choice = << "4" >>
       /\ saved_passwords = << >> )
     => ( ~CalledExport /\ "filename" \notin step.prompts )
  /\ CalledExport => Len(saved_passwords) >= 1

\* The export flow ran with an empty history, in a configured session.
C9_Witness ==
  /\ step.menu = "main_menu"
  /\ step.choice = << "4" >>
  /\ saved_passwords = << >>
  /\ step.shown = "nothing_to_export"
  /\ types_set

\* C10: a username that is blank once trimmed ends the program at once: no
\* password is asked, the login service is not called, and the main menu is
\* never entered.
C10_BlankUsernameAborts ==
  /\ []( ( /\ step.menu = "login"
           /\ Len(step.lines) >= 1
           /\ Strip(step.lines[1]) = << >> )
         => ( /\ pc = "terminated"
              /\ exit_status = "success"
              /\ "password" \notin step.prompts
              /\ step.calls = << >>
              /\ Len(step.lines) = 1 ) )
  /\ [][ pc = "terminated" => pc' = "terminated" ]_vars

\* A username of whitespace alone ended the program.
C10_Witness ==
  /\ step.menu = "login"
  /\ step.lines = << << " ", "\t" >> >>
  /\ pc = "terminated"

\* The pass just made called the login service.
CalledLogin == \E i \in 1..Len(step.calls) : step.calls[i].service = "login"

LoginStatuses ==
  { "ok", "locked", "invalid_format", "invalid_credentials", "service_error" }

\* Nothing of a session has happened: the configuration is as main creates
\* it, nothing was generated or saved, and no export call is being made.
NoSessionYet ==
  /\ config = << None, FALSE, TRUE, TRUE, TRUE, FALSE >>
  /\ saved_passwords = << >>
  /\ gen_count = 0
  /\ ~CalledExport

\* C11: the main menu is entered from the login screen only by a pass whose
\* one login call returned "ok"; a call that returns any other of the five
\* statuses leaves the program at the login prompt; and before that entry no
\* menu, setting, generation or export has happened.
C11_GrantedOnlyOnOk ==
  /\ []( pc \in { "welcome", "login" } => NoSessionYet )
  /\ [][ /\ (pc \in { "welcome", "login" } /\ pc' \notin { "welcome", "login" })
           => \/ /\ pc' = "main_menu"
                 /\ pc = "login"
                 /\ Len(step'.calls) = 1
                 /\ step'.calls[1].service = "login"
                 /\ step'.calls[1].returned = "ok"
                 /\ step'.shown = "login_successful"
              \/ pc' \in { "terminated", "crashed" } /\ NoSessionYet'
         /\ ( /\ pc = "login"
              /\ CalledLogin'
              /\ step'.calls[1].returned \in LoginStatuses \ { "ok" } )
           => ( /\ pc' = "login"
                /\ NoSessionYet'
                /\ step'.shown \in { "account_locked", "invalid_format",
                                     "invalid_credentials", "login_service_error" } )
       ]_vars

\* The service answered "locked" and the login prompt is shown again.
C11_Witness ==
  /\ pc = "login"
  /\ CalledLogin
  /\ step.calls[1].returned = "locked"
  /\ step.shown = "account_locked"

\* C12: whatever the login service does, attempt_login returns one of the
\* five statuses, "service_error" for a transport or parse failure, and
\* raises nothing.
C12_AttemptLoginTotal ==
  CalledLogin =>
    /\ step.raised = ""
    /\ pc # "crashed"
    /\ \A i \in 1..Len(step.calls) :
         /\ step.calls[i].returned \in LoginStatuses
         /\ step.calls[i].response.kind \in { "transport_error", "not_json" }
              => step.calls[i].returned = "service_error"

\* C13: after the export call exactly one outcome is shown and the main menu
\* follows: the service-error message when the service was unreachable or its
\* body was no JSON, the returned path as returned when the status is "ok",
\* otherwise the returned error message or the generic one; and no outcome
\* ends the program or raises.
C13_ExportOutcomeShown ==
  CalledExport =>
    /\ pc = "main_menu"
    /\ exit_status = "running"
    /\ step.raised = ""
    /\ \A i \in 1..Len(step.calls) :
         LET response == step.calls[i].response
         IN  /\ response.kind \in { "transport_error", "not_json" }
                  => step.shown = "service_error"
             /\ (response.kind = "json_object" /\ response.status = "ok")
                  => step.shown = "path" /\ step.text = response.path
             /\ (response.kind = "json_object" /\ response.status # "ok")
                  => IF response.has_error
                     THEN step.shown = "error_message"
                          /\ step.text = response.error_message
                     ELSE step.shown = "unknown_error"

\* The characters of the enabled classes.
EnabledCharacters ==
  UNION { IF use_lower  THEN Range(ascii_lowercase) ELSE {},
          IF use_upper  THEN Range(ascii_uppercase) ELSE {},
          IF use_digit  THEN Range(digits)          ELSE {},
          IF use_symbol THEN Range(symbols)         ELSE {} }

\* C14: for every length from 1 to 100 and every four flags of which one is
\* on, generate_password returns a password, of exactly that many characters,
\* each of an enabled class (a-z, A-Z, 0-9, the 30 symbols).
C14_PasswordShape ==
  step.op = "generate" =>
    /\ AnyTypeOn => ( step.raised = "" /\ Len(saved_passwords) = 1 )
    /\ step.raised = "" =>
         LET password == saved_passwords[Len(saved_passwords)].password
         IN  /\ Len(password) = length
             /\ \A i \in 1..Len(password) : password[i] \in EnabledCharacters
             /\ Cardinality(Range(symbols)) = 30

\* A password of 100 symbols was generated with only the symbols on.
C14_Witness ==
  /\ step.op = "generate"
  /\ length = 100
  /\ use_symbol /\ ~use_lower /\ ~use_upper /\ ~use_digit
  /\ Len(saved_passwords) = 1
  /\ Len(saved_passwords[1].password) = 100
  /\ saved_passwords[1].password[100] = "~"

\* The flag that a toggle choice is about.
FlagOf(choice, flags) ==
  CASE choice = << "1" >> -> flags.lower
    [] choice = << "2" >> -> flags.upper
    [] choice = << "3" >> -> flags.digit
    [] choice = << "4" >> -> flags.symbol

ToggleChoices == { << "1" >>, << "2" >>, << "3" >>, << "4" >> }

\* How many times a choice was typed in the visit just made.
Typed(choice) == Cardinality({ i \in 1..Len(step.lines) : step.lines[i] = choice })

\* C15: a type toggled twice in one visit of the character types menu, with
\* whatever toggles of other types in between, has its flag as it was; and
\* when the visit was two toggles of one type and nothing else, all four
\* flags are as they were, from any starting combination.
C15_ToggleTwiceRestores ==
  step.op = "character_types" =>
    \A choice \in ToggleChoices :
      /\ Typed(choice) = 2 => FlagOf(choice, Flags) = FlagOf(choice, step.before)
      /\ step.lines = << choice, choice, << "5" >> >> => Flags = step.before

\* Symbols were off, were toggled twice with a lowercase toggle in between,
\* and are off again, while lowercase changed.
C15_Witness ==
  /\ step.op = "character_types"
  /\ step.lines = << << "4" >>, << "1" >>, << "4" >>, << "5" >> >>
  /\ ~step.before.symbol
  /\ ~use_symbol
  /\ use_lower # step.before.lower

\* The exit choice of each menu.
ExitChoice ==
  [ main_menu |-> << "5" >>, settings |-> << "4" >>,
    generate  |-> << "3" >>, help     |-> << "5" >> ]

\* C16: the exit choice of the main menu (5), the settings menu (4), the
\* generate screen (3) and the help menu (5) ends the program with success
\* in that very pass, with no prompt, generation or service call and nothing
\* of the session changed; and nothing happens after the program has ended.
C16_ExitChoicesTerminate ==
  /\ [][ ( /\ pc \in DOMAIN ExitChoice
           /\ step'.menu = pc
           /\ step'.choice = ExitChoice[pc] )
         => ( /\ pc' = "terminated"
              /\ exit_status' = "success"
              /\ step'.prompts = {}
              /\ step'.calls = << >>
              /\ step'.lines = << >>
              /\ gen_count' = gen_count
              /\ saved_passwords' = saved_passwords
              /\ config' = config ) ]_vars
  /\ [][ pc = "terminated" => UNCHANGED vars ]_vars

\* The program ended from the generate screen, a password having been saved.
C16_Witness ==
  /\ pc = "terminated"
  /\ exit_status = "success"
  /\ step.menu = "generate"
  /\ step.choice = << "3" >>
  /\ Len(saved_passwords) = 1

\* One more password was generated and recorded by the step, and the generate
\* screen is shown.
OneMoreGenerated ==
  /\ pc' = "generate"
  /\ gen_count' = gen_count + 1
  /\ Len(saved_passwords') = Len(saved_passwords) + 1

\* C17: choice 1 of the main menu, when it enters the generate screen,
\* generates and records exactly one password; on the generate screen choice
\* 1 stays and generates exactly one more, choice 2 returns to the main menu
\* and choice 3 ends the program, neither of the two generating anything.
C17_OnePasswordPerEntry ==
  [][ /\ ( /\ pc = "main_menu"
           /\ step'.menu = "main_menu"
           /\ step'.choice = << "1" >>
           /\ ~SettingsMissing(length, types_set) ) => OneMoreGenerated
      /\ ( /\ pc = "generate"
           /\ step'.menu = "generate"
           /\ step'.choice = << "1" >> ) => OneMoreGenerated
      /\ ( /\ pc = "generate"
           /\ step'.menu = "generate"
           /\ step'.choice = << "2" >> )
           => ( /\ pc' = "main_menu"
                /\ gen_count' = gen_count
                /\ saved_passwords' = saved_passwords )
      /\ ( /\ pc = "generate"
           /\ step'.menu = "generate"
           /\ step'.choice = << "3" >> )
           => ( /\ pc' = "terminated"
                /\ gen_count' = gen_count
                /\ saved_passwords' = saved_passwords )
    ]_vars

\* C18: types_set is false when the session starts, the save of the character
\* types menu makes it true whatever the four flags are, no other step
\* changes it, and once true it stays true.
C18_TypesSetOnlyBySave ==
  /\ []( pc \in { "welcome", "login" } => ~types_set )
  /\ [][ /\ ( /\ pc = "char_types"
              /\ step'.menu = "char_types"
              /\ step'.choice = << "5" >> ) => types_set'
         /\ types_set => types_set'
         /\ types_set' # types_set
              => ( /\ pc = "char_types"
                   /\ step'.menu = "char_types"
                   /\ step'.choice = << "5" >> )
       ]_vars

\* The save has just set types_set with all four flags off.
C18_Witness ==
  /\ types_set
  /\ step.op = "save_types"
  /\ ~AnyTypeOn

\* C19: a toggle negates the flag of its type and leaves the three other
\* flags, the length, types_set and the history as they were; a visit of
\* "Set length", whether it changes the length or not, leaves the four flags,
\* types_set and the history as they were.
C19_EditsTouchOnlyTheirField ==
  [][ /\ ( /\ pc = "char_types"
           /\ step'.menu = "char_types"
           /\ step'.choice \in ToggleChoices )
        => ( /\ FlagOf(step'.choice, Flags') = ~FlagOf(step'.choice, Flags)
             /\ \A other \in ToggleChoices \ { step'.choice } :
                  FlagOf(other, Flags') = FlagOf(other, Flags)
             /\ length' = length
             /\ types_set' = types_set
             /\ saved_passwords' = saved_passwords )
      /\ ( /\ pc = "settings"
           /\ step'.menu = "settings"
           /\ step'.choice = << "1" >> )
        => ( /\ Flags' = Flags
             /\ types_set' = types_set
             /\ saved_passwords' = saved_passwords )
    ]_vars

\* Uppercase has just been toggled off, with a password in the history and
\* the length changed from 7 to 12 before.
C19_Witness ==
  /\ step.op = "toggle"
  /\ step.choice = << "2" >>
  /\ ~use_upper
  /\ use_lower
  /\ length = 12
  /\ types_set
  /\ Len(saved_passwords) = 1

\* C20: nothing is retried. A pass of the login screen with a username that
\* is not blank makes exactly one call of the login service, a run of the
\* export screen with a history that is not empty makes exactly one call of
\* the export service, whatever the call comes to, and no other step makes
\* a call.
C20_OneCallPerSubmission ==
  /\ ( step.menu = "login" /\ step.op = "login" )
       => ( /\ Len(step.calls) = 1
            /\ step.calls[1].service = "login" )
  /\ ( step.op = "export" /\ saved_passwords # << >> )
       => ( /\ Len(step.calls) = 1
            /\ step.calls[1].service = "export"
            /\ step.calls[1].data = saved_passwords )
  /\ ~( step.op = "login" \/ (step.op = "export" /\ saved_passwords # << >>) )
       => step.calls = << >>

\* The export service did not answer, and it was called once.
C20_Witness ==
  /\ step.op = "export"
  /\ Len(step.calls) = 1
  /\ step.calls[1].response.kind = "transport_error"
  /\ step.shown = "service_error"
  /\ pc = "main_menu"

\* C21: the request of an export call carries the filename typed, without the
\* white space around it, or "passwords.csv" when the line typed is blank, and
\* the whole history in its order, which the export leaves as it was for the
\* next one.
C21_ExportRequest ==
  /\ []( CalledExport =>
           \A i \in 1..Len(step.calls) :
             LET typed    == step.lines[1]
                 filename == step.calls[i].filename
             IN  /\ IF \A k \in 1..Len(typed) : typed[k] \in Whitespace
                    THEN filename = << "p","a","s","s","w","o","r","d","s",".","c","s","v" >>
                    ELSE /\ filename = Strip(typed)
                         /\ filename[1] \notin Whitespace
                         /\ filename[Len(filename)] \notin Whitespace
                 /\ step.calls[i].data = saved_passwords
                 /\ Len(step.calls[i].data) = gen_count )
  /\ [][ CalledExport' => saved_passwords' = saved_passwords ]_vars

\* The service refused an export of a history of two records, sent under a
\* name typed with white space around it.
C21_Witness ==
  /\ CalledExport
  /\ pc = "main_menu"
  /\ step.lines = << << " ", "a", "\t" >> >>
  /\ step.calls[1].filename = << "a" >>
  /\ Len(step.calls[1].data) = 2
  /\ step.calls[1].response.status = "error"

\* The choices each menu lists.
ListedChoices ==
  [ main_menu  |-> { << "1" >>, << "2" >>, << "3" >>, << "4" >>, << "5" >> },
    settings   |-> { << "1" >>, << "2" >>, << "3" >>, << "4" >> },
    char_types |-> { << "1" >>, << "2" >>, << "3" >>, << "4" >>, << "5" >> },
    help       |-> { << "1" >>, << "2" >>, << "3" >>, << "4" >>, << "5" >> },
    generate   |-> { << "1" >>, << "2" >>, << "3" >> } ]

\* C22: a choice that a menu does not list, typed at the main menu, the
\* settings menu, the character types menu, the help menu or the generate
\* screen, leaves the program in that menu with the length, types_set, the
\* four flags and the history as they were, generates nothing and calls no
\* service.
C22_UnrecognizedChoiceChangesNothing ==
  [][ ( /\ pc \in DOMAIN ListedChoices
        /\ step'.menu = pc
        /\ step'.choice \notin ListedChoices[pc] )
      => ( /\ pc' = pc
           /\ config' = config
           /\ saved_passwords' = saved_passwords
           /\ gen_count' = gen_count
           /\ step'.calls = << >> ) ]_vars

====
